---------------------------- MODULE Spec2Model ----------------------------
(***************************************************************************)
(* A model of the DingTalk Developer Assistant plugin for OpenClaw:        *)
(*   - the transport/parsing client (src/unnamed/part_000,                 *)
(*     class DingTalkAssistantClient), and                                 *)
(*   - the tool adapter (src/unnamed/part_001 lines 216-453, the           *)
(*     `execute` version of the plugin).                                   *)
(*                                                                         *)
(* JavaScript strings are sequences of characters; a character is a        *)
(* one-element TLA+ string.  The two CJK characters \u5982 \u4f55 of    *)
(* the follow-up pattern are the tokens "U5982" and "U4F55".               *)
(* JavaScript values that the code tests with typeof / truthiness are      *)
(* records [t, v]: t is the typeof tag, v the characters of a string.      *)
(***************************************************************************)
EXTENDS Integers, Sequences, FiniteSets, TLC

(***************************************************************************)
(* Bounds of the model.                                                    *)
(***************************************************************************)
NProcs == 2
MaxCalls == 3
MaxLines == 3
MaxPieces == 4

Procs == 1..NProcs

(***************************************************************************)
(* JavaScript values and strings.                                          *)
(***************************************************************************)
Undefined == [t |-> "undefined", v |-> <<>>]
NotAString == [t |-> "number", v |-> <<>>]
Str(s) == [t |-> "string", v |-> s]

\* typeof x === "string"
IsString(x) == x.t = "string"

\* JavaScript truthiness of a value of the kinds above: undefined and the
\* empty string are falsy. (NotAString stands for a truthy non-string.)
Truthy(x) == IF x.t = "undefined" THEN FALSE
             ELSE IF x.t = "string" THEN x.v # <<>>
             ELSE TRUE

\* White space that String.prototype.trim removes (of the model's alphabet).
IsSpace(c) == c \in {" ", "\t", "\n", "\r"}

RECURSIVE TrimStart(_)
TrimStart(s) == IF s = <<>> THEN <<>>
                ELSE IF IsSpace(Head(s)) THEN TrimStart(Tail(s))
                ELSE s

RECURSIVE TrimEnd(_)
TrimEnd(s) == IF s = <<>> THEN <<>>
              ELSE IF IsSpace(s[Len(s)]) THEN TrimEnd(SubSeq(s, 1, Len(s) - 1))
              ELSE s

\* String.prototype.trim
Trim(s) == TrimEnd(TrimStart(s))

\* String.prototype.startsWith
StartsWith(s, prefix) ==
    /\ Len(s) >= Len(prefix)
    /\ SubSeq(s, 1, Len(prefix)) = prefix

\* String.prototype.slice(n) for 0 <= n
SliceFrom(s, n) == IF n >= Len(s) THEN <<>> ELSE SubSeq(s, n + 1, Len(s))

\* String.prototype.split("\n"): the pieces between the newlines, empty
\* pieces kept (the split of "" is the one piece "").
RECURSIVE SplitLines(_, _)
SplitLines(s, cur) ==
    IF s = <<>> THEN <<cur>>
    ELSE IF Head(s) = "\n" THEN <<cur>> \o SplitLines(Tail(s), <<>>)
    ELSE SplitLines(Tail(s), Append(cur, Head(s)))

\* Array.prototype.join(sep) of an array of strings.
RECURSIVE Join(_, _)
Join(parts, sep) ==
    IF parts = <<>> THEN <<>>
    ELSE IF Len(parts) = 1 THEN parts[1]
    ELSE parts[1] \o sep \o Join(Tail(parts), sep)

(***************************************************************************)
(* JSON.parse, on the model's alphabet: objects, arrays, strings (escapes   *)
(* \" \\ \/ \n \r \t), integers and the literals null, true, false, with   *)
(* JSON white space around every token.  A parsed value is a record        *)
(*   [t, s, m]: t in {"obj","arr","str","num","null","bool"},              *)
(*   s the characters of a string (the digits of a number, the letters of  *)
(*   a literal), m the members: <<key, value>> pairs of an object, the     *)
(*   elements of an array.                                                 *)
(* A parse step returns [ok, val, next]: next is the index after the       *)
(* value.  \uXXXX escapes, fractions and exponents are not in the alphabet *)
(* of the bodies the model draws.                                          *)
(***************************************************************************)
JVal(t, s, m) == [t |-> t, s |-> s, m |-> m]
JNull == JVal("null", <<"n", "u", "l", "l">>, <<>>)
JStr(s) == JVal("str", s, <<>>)
JFail == [ok |-> FALSE, val |-> JNull, next |-> 0]
JOk(v, n) == [ok |-> TRUE, val |-> v, next |-> n]

IsJsonSpace(c) == c \in {" ", "\t", "\n", "\r"}
IsDigit(c) == c \in {"0", "1", "2", "3", "4", "5", "6", "7", "8", "9"}
\* Characters a JSON string may not hold unescaped (of the model's alphabet).
IsControl(c) == c \in {"\t", "\n", "\r"}

\* The character an escape \c stands for; "" when \c is no escape.
Unescape(c) ==
    CASE c = "\"" -> "\""
      [] c = "\\" -> "\\"
      [] c = "/"  -> "/"
      [] c = "n"  -> "\n"
      [] c = "r"  -> "\r"
      [] c = "t"  -> "\t"
      [] OTHER    -> ""

RECURSIVE SkipSpace(_, _)
SkipSpace(s, i) ==
    IF i <= Len(s) /\ IsJsonSpace(s[i]) THEN SkipSpace(s, i + 1) ELSE i

\* The rest of a string literal whose opening quote is before index i.
RECURSIVE ScanString(_, _, _)
ScanString(s, i, acc) ==
    IF i > Len(s) THEN JFail
    ELSE IF s[i] = "\"" THEN JOk(JStr(acc), i + 1)
    ELSE IF s[i] = "\\" THEN
        IF i + 1 > Len(s) \/ Unescape(s[i + 1]) = "" THEN JFail
        ELSE ScanString(s, i + 2, Append(acc, Unescape(s[i + 1])))
    ELSE IF IsControl(s[i]) THEN JFail
    ELSE ScanString(s, i + 1, Append(acc, s[i]))

RECURSIVE ScanDigits(_, _)
ScanDigits(s, i) ==
    IF i <= Len(s) /\ IsDigit(s[i]) THEN ScanDigits(s, i + 1) ELSE i

\* An integer: -? (0 | [1-9][0-9]*)
ScanNumber(s, i) ==
    LET d == IF s[i] = "-" THEN i + 1 ELSE i
        e == ScanDigits(s, d)
    IN  IF e = d THEN JFail
        ELSE IF s[d] = "0" /\ e > d + 1 THEN JOk(JVal("num", <<"0">>, <<>>), d + 1)
        ELSE JOk(JVal("num", SubSeq(s, i, e - 1), <<>>), e)

ScanLiteral(s, i, word, t) ==
    IF i + Len(word) - 1 <= Len(s) /\ SubSeq(s, i, i + Len(word) - 1) = word
    THEN JOk(JVal(t, word, <<>>), i + Len(word))
    ELSE JFail

RECURSIVE ParseValue(_, _)
RECURSIVE ParseElements(_, _, _)
RECURSIVE ParseMembers(_, _, _)

\* A value starting at or after index i (white space skipped before it).
ParseValue(s, i0) ==
    LET i == SkipSpace(s, i0)
    IN  IF i > Len(s) THEN JFail
        ELSE IF s[i] = "\"" THEN ScanString(s, i + 1, <<>>)
        ELSE IF s[i] = "{" THEN
            LET j == SkipSpace(s, i + 1)
            IN  IF j <= Len(s) /\ s[j] = "}" THEN JOk(JVal("obj", <<>>, <<>>), j + 1)
                ELSE ParseMembers(s, j, <<>>)
        ELSE IF s[i] = "[" THEN
            LET j == SkipSpace(s, i + 1)
            IN  IF j <= Len(s) /\ s[j] = "]" THEN JOk(JVal("arr", <<>>, <<>>), j + 1)
                ELSE ParseElements(s, j, <<>>)
        ELSE IF s[i] = "-" \/ IsDigit(s[i]) THEN ScanNumber(s, i)
        ELSE IF s[i] = "n" THEN ScanLiteral(s, i, <<"n", "u", "l", "l">>, "null")
        ELSE IF s[i] = "t" THEN ScanLiteral(s, i, <<"t", "r", "u", "e">>, "bool")
        ELSE IF s[i] = "f" THEN ScanLiteral(s, i, <<"f", "a", "l", "s", "e">>, "bool")
        ELSE JFail

\* The elements of an array after "[", the first at i; acc holds those read.
ParseElements(s, i, acc) ==
    LET v == ParseValue(s, i)
    IN  IF ~v.ok THEN JFail
        ELSE LET j == SkipSpace(s, v.next)
             IN  IF j > Len(s) THEN JFail
                 ELSE IF s[j] = "]" THEN JOk(JVal("arr", <<>>, Append(acc, v.val)), j + 1)
                 ELSE IF s[j] = "," THEN ParseElements(s, j + 1, Append(acc, v.val))
                 ELSE JFail

\* The members of an object after "{", the first key at i.
ParseMembers(s, i0, acc) ==
    LET i == SkipSpace(s, i0)
    IN  IF i > Len(s) \/ s[i] # "\"" THEN JFail
        ELSE LET k == ScanString(s, i + 1, <<>>)
             IN  IF ~k.ok THEN JFail
                 ELSE LET c == SkipSpace(s, k.next)
                      IN  IF c > Len(s) \/ s[c] # ":" THEN JFail
                          ELSE LET v == ParseValue(s, c + 1)
                               IN  IF ~v.ok THEN JFail
                                   ELSE LET j   == SkipSpace(s, v.next)
                                            mem == Append(acc, <<k.val.s, v.val>>)
                                        IN  IF j > Len(s) THEN JFail
                                            ELSE IF s[j] = "}" THEN JOk(JVal("obj", <<>>, mem), j + 1)
                                            ELSE IF s[j] = "," THEN ParseMembers(s, j + 1, mem)
                                            ELSE JFail

\* JSON.parse(text): [ok |-> FALSE] stands for the SyntaxError it throws.
JsonParse(text) ==
    LET v == ParseValue(text, 1)
    IN  IF v.ok /\ SkipSpace(text, v.next) > Len(text) THEN v ELSE JFail

(***************************************************************************)
(* What the code does with a parsed value.                                 *)
(***************************************************************************)
\* Truthiness of a parsed value (if (msg.data) ...).
JsonTruthy(v) ==
    CASE v.t = "str"  -> v.s # <<>>
      [] v.t = "num"  -> \E i \in 1..Len(v.s) : v.s[i] \notin {"0", "-"}
      [] v.t = "null" -> FALSE
      [] v.t = "bool" -> v.s = <<"t", "r", "u", "e">>
      [] OTHER        -> TRUE

\* The members of object v named key, in order (the last one is the value
\* JSON.parse keeps for a repeated key).
RECURSIVE MembersNamed(_, _)
MembersNamed(m, key) ==
    IF m = <<>> THEN <<>>
    ELSE IF m[1][1] = key THEN <<m[1][2]>> \o MembersNamed(Tail(m), key)
    ELSE MembersNamed(Tail(m), key)

\* v.key is defined: v is an object with a member of that name. (A string,
\* number, boolean or array has no own property "data"; reading a property
\* of null throws, which parseSSEResponse handles apart.)
HasProp(v, key) == v.t = "obj" /\ MembersNamed(v.m, key) # <<>>

GetProp(v, key) ==
    LET named == MembersNamed(v.m, key) IN named[Len(named)]

\* String(v), as Array.prototype.join applies it to each element.
RECURSIVE JsToString(_)
RECURSIVE JoinValues(_)
JsToString(v) ==
    CASE v.t = "str"  -> v.s
      [] v.t = "num"  -> v.s
      [] v.t = "bool" -> v.s
      [] v.t = "null" -> <<"n", "u", "l", "l">>
      [] v.t = "arr"  -> JoinValues(v.m)
      [] OTHER        -> <<"[object Object]">>

\* Array.prototype.join(",") inside String(array): null elements are empty.
JoinValues(m) ==
    IF m = <<>> THEN <<>>
    ELSE LET h == IF m[1].t = "null" THEN <<>> ELSE JsToString(m[1])
         IN  IF Len(m) = 1 THEN h ELSE h \o <<",">> \o JoinValues(Tail(m))

(***************************************************************************)
(* DingTalkAssistantClient.parseSSEResponse                                *)
(***************************************************************************)
DataPrefix == <<"d", "a", "t", "a", ":">>

\* What one line of the body pushes on chunks: nothing, or one string.
SseChunk(line) ==
    IF ~StartsWith(line, DataPrefix) THEN <<>>
    ELSE LET payload == Trim(SliceFrom(line, 5))
         IN  IF payload = <<>> THEN <<>>
             ELSE LET msg == JsonParse(payload)
                  IN  IF ~msg.ok THEN <<payload>>
                      ELSE IF msg.val.t = "null" THEN <<payload>>
                      ELSE IF HasProp(msg.val, <<"d", "a", "t", "a">>)
                              /\ JsonTruthy(GetProp(msg.val, <<"d", "a", "t", "a">>))
                           THEN <<JsToString(GetProp(msg.val, <<"d", "a", "t", "a">>))>>
                      ELSE <<>>

RECURSIVE SseChunks(_)
SseChunks(lines) ==
    IF lines = <<>> THEN <<>> ELSE SseChunk(Head(lines)) \o SseChunks(Tail(lines))

\* The parser joining its chunks with a newline: chunks.join("\n").
parseSSEResponse_Separator(raw) == Join(SseChunks(SplitLines(raw, <<>>)), <<"\n">>)

parseSSEResponse(raw) == Join(SseChunks(SplitLines(raw, <<>>)), <<>>)

(***************************************************************************)
(* The two regular expressions of extractFollowUps and cleanAnswer.        *)
(*   how   = \["\u5982\u4f55.*?"\]          (not anchored)                 *)
(*   array = \["[^"]+?"(?:,"[^"]+?")*\]$    (anchored at the end)          *)
(* A matcher returns the index of the last character matched, 0 for none.  *)
(***************************************************************************)
\* Characters "." does not match (of the model's alphabet).
IsLineTerminator(c) == c \in {"\n", "\r"}

HowPrefix == <<"[", "\"", "U5982", "U4F55">>

\* .*?"\] from index k: the first "] that no line terminator precedes.
RECURSIVE LazyUntilClose(_, _)
LazyUntilClose(s, k) ==
    IF k + 1 <= Len(s) /\ s[k] = "\"" /\ s[k + 1] = "]" THEN k + 1
    ELSE IF k > Len(s) THEN 0
    ELSE IF IsLineTerminator(s[k]) THEN 0
    ELSE LazyUntilClose(s, k + 1)

MatchHowAt(s, i) ==
    IF i + Len(HowPrefix) - 1 <= Len(s)
       /\ SubSeq(s, i, i + Len(HowPrefix) - 1) = HowPrefix
    THEN LazyUntilClose(s, i + Len(HowPrefix))
    ELSE 0

\* [^"]+?" from index k: the index of the closing quote, 0 when the item is
\* empty or never closed.
RECURSIVE ItemClose(_, _, _)
ItemClose(s, k, first) ==
    IF k > Len(s) THEN 0
    ELSE IF s[k] = "\"" THEN (IF k = first THEN 0 ELSE k)
    ELSE ItemClose(s, k + 1, first)

\* (?:,"[^"]+?")*\]$ after the closing quote at index j.
RECURSIVE MoreItems(_, _)
MoreItems(s, j) ==
    IF j + 1 = Len(s) /\ s[j + 1] = "]" THEN j + 1
    ELSE IF j + 2 <= Len(s) /\ s[j + 1] = "," /\ s[j + 2] = "\"" THEN
        LET c == ItemClose(s, j + 3, j + 3)
        IN  IF c = 0 THEN 0 ELSE MoreItems(s, c)
    ELSE 0

MatchArrayAt(s, i) ==
    IF i + 1 <= Len(s) /\ s[i] = "[" /\ s[i + 1] = "\"" THEN
        LET c == ItemClose(s, i + 2, i + 2)
        IN  IF c = 0 THEN 0 ELSE MoreItems(s, c)
    ELSE 0

NoMatch == [found |-> FALSE, from |-> 0, to |-> 0]

\* fullText.match(/how|array/): the leftmost start at which an alternative
\* matches, the first alternative tried first.
FollowUpMatch(s) ==
    LET starts == {i \in 1..Len(s) : MatchHowAt(s, i) # 0 \/ MatchArrayAt(s, i) # 0}
    IN  IF starts = {} THEN NoMatch
        ELSE LET i == CHOOSE k \in starts : \A o \in starts : k <= o
             IN  [found |-> TRUE, from |-> i,
                  to |-> IF MatchHowAt(s, i) # 0 THEN MatchHowAt(s, i)
                                                 ELSE MatchArrayAt(s, i)]

\* The leftmost match of /array/ alone.
ArrayMatch(s) ==
    LET starts == {i \in 1..Len(s) : MatchArrayAt(s, i) # 0}
    IN  IF starts = {} THEN NoMatch
        ELSE LET i == CHOOSE k \in starts : \A o \in starts : k <= o
             IN  [found |-> TRUE, from |-> i, to |-> MatchArrayAt(s, i)]

(***************************************************************************)
(* DingTalkAssistantClient.extractFollowUps / cleanAnswer                  *)
(***************************************************************************)
\* The follow-up list: the elements JSON.parse reads from the match (parsed
\* values), [] when there is no match or the match is not JSON.
extractFollowUps(fullText) ==
    LET match == FollowUpMatch(fullText)
    IN  IF match.found
        THEN LET parsed == JsonParse(SubSeq(fullText, match.from, match.to))
             IN  IF parsed.ok THEN parsed.val.m ELSE <<>>
        ELSE <<>>

cleanAnswer(fullText) ==
    LET match == ArrayMatch(fullText)
    IN  Trim(IF match.found
             THEN SubSeq(fullText, 1, match.from - 1)
                  \o SubSeq(fullText, match.to + 1, Len(fullText))
             ELSE fullText)

(***************************************************************************)
(* The remote service: what a fetch can come back with.  A response is     *)
(*   [arrived, ok, body]: arrived = FALSE is a fetch that rejects (no      *)
(*   response at all), ok is resp.ok; a body is                            *)
(*   [decodable, success, hasResult, conversationId, hasDialog, dialog,    *)
(*    list, text]: decodable says whether resp.json() resolves, the next   *)
(*   six fields are the decoded envelope {success, result: {...}} (list    *)
(*   is result itself for the recommend endpoint), text is resp.text().    *)
(***************************************************************************)
Body(decodable, success, hasResult, cid, hasDialog, dialog, list, text) ==
    [decodable |-> decodable, success |-> success, hasResult |-> hasResult,
     conversationId |-> cid, hasDialog |-> hasDialog, dialog |-> dialog,
     list |-> list, text |-> text]

Garbage == Body(FALSE, FALSE, FALSE, <<>>, FALSE, <<>>, <<>>, <<"<", "h", "t", "m", "l", ">">>)
NoBody == Body(FALSE, FALSE, FALSE, <<>>, FALSE, <<>>, <<>>, <<>>)

Response(ok, body) == [arrived |-> TRUE, ok |-> ok, body |-> body]
Rejected == [arrived |-> FALSE, ok |-> FALSE, body |-> NoBody]
NoResponse == [arrived |-> FALSE, ok |-> TRUE, body |-> NoBody]

\* Conversation ids the service issues.
ConvIds == {<<"a">>, <<"b">>}

CreateBodies ==
    {Garbage,
     Body(TRUE, FALSE, TRUE, <<"a">>, FALSE, <<>>, <<>>, <<>>),
     Body(TRUE, TRUE, FALSE, <<>>, FALSE, <<>>, <<>>, <<>>)}
    \cup {Body(TRUE, TRUE, TRUE, c, FALSE, <<>>, <<>>, <<>>) : c \in ConvIds}

\* One dialog entry as the history endpoint returns it.
DialogEntry ==
    [question |-> <<"q">>, questionId |-> <<"1">>,
     answer |-> [answerId |-> <<"2">>, answer |-> <<"h", "i">>,
                 messageType |-> <<"m">>, extInfo |-> <<>>],
     createTime |-> <<"t">>]

HistoryBodies ==
    {Garbage,
     Body(TRUE, FALSE, TRUE, <<"a">>, TRUE, <<DialogEntry>>, <<>>, <<>>),
     Body(TRUE, TRUE, TRUE, <<"a">>, TRUE, <<DialogEntry>>, <<>>, <<>>),
     Body(TRUE, TRUE, TRUE, <<"a">>, FALSE, <<>>, <<>>, <<>>),
     Body(TRUE, TRUE, FALSE, <<>>, FALSE, <<>>, <<>>, <<>>)}

RecommendBodies ==
    {Garbage,
     Body(TRUE, TRUE, TRUE, <<>>, FALSE, <<>>, <<<<"r", "1">>, <<"r", "2">>>>, <<>>),
     Body(TRUE, TRUE, TRUE, <<>>, FALSE, <<>>, <<>>, <<>>),
     Body(TRUE, TRUE, FALSE, <<>>, FALSE, <<>>, <<>>, <<>>)}

\* data: {"data": "hi"}
SseHi == <<"d", "a", "t", "a", ":", " ", "{", "\"", "d", "a", "t", "a", "\"", ":",
           " ", "\"", "h", "i", "\"", "}">>
\* data: {"data": "[\"q1\"]"}
SseFollowUps == <<"d", "a", "t", "a", ":", " ", "{", "\"", "d", "a", "t", "a", "\"", ":",
                  " ", "\"", "[", "\\", "\"", "q", "1", "\\", "\"", "]", "\"", "}">>

SseBodies ==
    {Body(FALSE, FALSE, FALSE, <<>>, FALSE, <<>>, <<>>, txt) :
        txt \in {<<>>, SseHi \o <<"\n", "\n">>, SseHi \o <<"\n">> \o SseFollowUps \o <<"\n">>}}

\* What a fetch comes back with: no response, a success status with one of
\* bodies, or an error status with an error page or with the envelope okBody.
Responses(bodies, okBody) ==
    {Rejected} \cup {Response(TRUE, b) : b \in bodies}
    \cup {Response(FALSE, Garbage), Response(FALSE, okBody)}

CreateResponses ==
    Responses(CreateBodies, Body(TRUE, TRUE, TRUE, <<"a">>, FALSE, <<>>, <<>>, <<>>))
SseResponses ==
    Responses(SseBodies, Body(FALSE, FALSE, FALSE, <<>>, FALSE, <<>>, <<>>, SseHi \o <<"\n", "\n">>))
HistoryResponses ==
    Responses(HistoryBodies,
              Body(TRUE, TRUE, TRUE, <<"a">>, TRUE, <<DialogEntry>>, <<>>, <<>>))
RecommendResponses ==
    Responses(RecommendBodies,
              Body(TRUE, TRUE, TRUE, <<>>, FALSE, <<>>, <<<<"r", "1">>, <<"r", "2">>>>, <<>>))

(***************************************************************************)
(* The client's calls, each as the outcome it has on the response its      *)
(* fetch came back with: [threw, error, value].                            *)
(***************************************************************************)
Threw(msg) == [threw |-> TRUE, error |-> msg, value |-> Undefined]
Returned(v) == [threw |-> FALSE, error |-> "", value |-> v]

\* The messages of the errors, without the status text and the envelope
\* dump the code appends to some.
FetchFailed == "fetch failed"
NotJson == "Unexpected token < in JSON at position 0"
NoProperty == "Cannot read properties of undefined"
CreateFailed == "Failed to create conversation: "
CreateApiError == "API error creating conversation: "
SseFailed == "SSE request failed: "
HistoryFailed == "Failed to get history: "
HistoryApiError == "API error getting history: "

\* createConversation that decodes the body before it looks at the status.
createConversation_BodyFirst(resp) ==
    IF ~resp.arrived THEN Threw(FetchFailed)
    ELSE IF ~resp.body.decodable THEN Threw(NotJson)
    ELSE IF ~resp.body.success THEN Threw(CreateApiError)
    ELSE IF ~resp.ok THEN Threw(CreateFailed)
    ELSE IF ~resp.body.hasResult THEN Threw(NoProperty)
    ELSE Returned(Str(resp.body.conversationId))

createConversation(resp) ==
    IF ~resp.arrived THEN Threw(FetchFailed)
    ELSE IF ~resp.ok THEN Threw(CreateFailed)
    ELSE IF ~resp.body.decodable THEN Threw(NotJson)
    ELSE IF ~resp.body.success THEN Threw(CreateApiError)
    ELSE IF ~resp.body.hasResult THEN Threw(NoProperty)
    ELSE Returned(Str(resp.body.conversationId))

\* ask's value is the parsed answer text.
ask(resp) ==
    IF ~resp.arrived THEN Threw(FetchFailed)
    ELSE IF ~resp.ok THEN Threw(SseFailed)
    ELSE Returned(Str(parseSSEResponse(resp.body.text)))

\* getHistory's value is json.result: [defined, hasDialog, dialog].
HistoryValue(defined, hasDialog, dialog) ==
    [t |-> "history", v |-> <<>>, defined |-> defined, hasDialog |-> hasDialog,
     dialog |-> dialog]

getHistory(resp) ==
    IF ~resp.arrived THEN Threw(FetchFailed)
    ELSE IF ~resp.ok THEN Threw(HistoryFailed)
    ELSE IF ~resp.body.decodable THEN Threw(NotJson)
    ELSE IF ~resp.body.success THEN Threw(HistoryApiError)
    ELSE Returned(HistoryValue(resp.body.hasResult, resp.body.hasDialog, resp.body.dialog))

\* getRecommendedQuestions' value is the list of questions.
ListValue(list) == [t |-> "list", v |-> list]

\* getRecommendedQuestions that fails on an error status as the other calls do.
getRecommendedQuestions_Throws(resp) ==
    IF ~resp.arrived THEN Threw(FetchFailed)
    ELSE IF ~resp.ok THEN Threw("Failed to get recommendations: ")
    ELSE IF ~resp.body.decodable THEN Threw(NotJson)
    ELSE IF ~resp.body.hasResult THEN Returned(ListValue(<<>>))
    ELSE Returned(ListValue(resp.body.list))

getRecommendedQuestions(resp) ==
    IF ~resp.arrived THEN Threw(FetchFailed)
    ELSE IF ~resp.ok THEN Returned(ListValue(<<>>))
    ELSE IF ~resp.body.decodable THEN Threw(NotJson)
    ELSE IF ~resp.body.hasResult THEN Returned(ListValue(<<>>))
    ELSE Returned(ListValue(resp.body.list))

\* What query and followUp return once ask has returned the raw answer.
query(conversationId, answer) ==
    [conversationId |-> conversationId,
     answer |-> cleanAnswer(answer),
     followUpQuestions |-> extractFollowUps(answer)]

followUp(answer) ==
    [conversationId |-> Undefined,
     answer |-> cleanAnswer(answer),
     followUpQuestions |-> extractFollowUps(answer)]

(***************************************************************************)
(* The tool adapter (the plugin's register function).                      *)
(*                                                                         *)
(* Every handler is an async function: it runs from its call to its first  *)
(* await (a fetch), and from a response to its next await or its return.   *)
(* A slot p of Procs holds one invocation at a time; invocations in        *)
(* different slots interleave at their awaits.  The awaits of one client   *)
(* call (fetch, then resp.json() or resp.text()) are one step: nothing the *)
(* handlers share is read or written between them.                         *)
(*                                                                         *)
(* The host calls execute with an args object (the declared schema is      *)
(* type "object"); its properties may be missing or of any type.  The      *)
(* command's ctx.args is a string or missing.                              *)
(***************************************************************************)
VARIABLES
    sessions,   \* the Map "sessions": a function whose domain is {} or {"current"}
    pc,         \* pc[p]: "idle", or the client call invocation p awaits
    tool,       \* tool[p]: the handler of the current (or last) invocation in p
    args,       \* args[p]: [question, conversationId, pageUrl] it was called with
    loc,        \* loc[p]: its locals [question, conversationId]
    requests,   \* requests[p]: the HTTP requests it has issued, in order
    resp,       \* resp[p]: the response it received last
    result,     \* result[p]: what it returned to the host
    calls,      \* calls[p]: how many invocations slot p has started
    lastOk,     \* history: query's conversationId in the latest ask/command that succeeded
    lastUsed,   \* history: the conversationId the latest invocation that succeeded used
    raw,        \* parser: the response body given to parseSSEResponse
    texts,      \* parser: what each line of raw was built from
    answer,     \* parser: parseSSEResponse(raw) once it has run
    fullText,   \* follow-ups: the answer text given to followUp's two helpers
    pieces,     \* follow-ups: how many pieces fullText was put together from
    given,      \* follow-ups: the text before the array the service appended, and its strings
    reply       \* follow-ups: what followUp returns for fullText, once it has run

toolVars == <<sessions, pc, tool, args, loc, requests, resp, result, calls, lastOk, lastUsed>>
sseVars == <<raw, texts, answer>>
textVars == <<fullText, pieces, given, reply>>
vars == <<sessions, pc, tool, args, loc, requests, resp, result, calls, lastOk, lastUsed,
          raw, texts, answer, fullText, pieces, given, reply>>

\* sessions.get(key)
sessionsGet(key) == IF key \in DOMAIN sessions THEN sessions[key] ELSE Undefined

\* sessions.set(key, value)
sessionsSet(key, value) ==
    [k \in DOMAIN sessions \cup {key} |-> IF k = key THEN value ELSE sessions[k]]

(***************************************************************************)
(* Results.  A payload is the object a tool hands to jsonResult: keys are  *)
(* the properties it has, the other fields their values.                   *)
(***************************************************************************)
Payload(keys, error, cid, ans, list) ==
    [keys |-> keys, error |-> error, conversationId |-> cid, answer |-> ans,
     list |-> list]
NoPayload == Payload({}, "", Undefined, <<>>, <<>>)
ErrorPayload(msg) == Payload({"error"}, msg, Undefined, <<>>, <<>>)

\* jsonResult(payload): content[0].text is the JSON text of details.
jsonResult(payload) == [kind |-> "tool", details |-> payload, text |-> <<>>]
\* The command's { text }.
TextResult(text) == [kind |-> "command", details |-> NoPayload, text |-> text]
NoResult == [kind |-> "none", details |-> NoPayload, text |-> <<>>]

QuestionRequired == "question parameter is required"
PageUrlRequired == "pageUrl parameter is required"
NoActiveConversation ==
    "No active conversation. Use dingtalk_ask first to start a conversation."
Usage == "Usage: /dingtalk <your question>"
FollowUpsHeader == "\n\n---\n**Suggested follow-ups:**\n"

\* The decimal digits of n >= 0.
RECURSIVE NatToString(_)
NatToString(n) ==
    LET d == <<"0", "1", "2", "3", "4", "5", "6", "7", "8", "9">>[(n % 10) + 1]
    IN  IF n < 10 THEN <<d>> ELSE Append(NatToString(n \div 10), d)

\* The forEach of the command: text += `${i + 1}. ${q}\n`, from item i on.
RECURSIVE NumberedList(_, _)
NumberedList(list, i) ==
    IF i > Len(list) THEN <<>>
    ELSE NatToString(i) \o <<".", " ">> \o JsToString(list[i]) \o <<"\n">>
         \o NumberedList(list, i + 1)

\* The command's text for a query result.
CommandText(r) ==
    IF Len(r.followUpQuestions) > 0
    THEN r.answer \o <<FollowUpsHeader>> \o NumberedList(r.followUpQuestions, 1)
    ELSE r.answer

\* history.dialog.map(d => ({question, answer: d.answer.answer, time}))
FlatDialog(dialog) ==
    [i \in 1..Len(dialog) |->
        [question |-> dialog[i].question, answer |-> dialog[i].answer.answer,
         time |-> dialog[i].createTime]]

(***************************************************************************)
(* Requests.                                                               *)
(***************************************************************************)
Request(endpoint, cid, q) == [endpoint |-> endpoint, conversationId |-> cid, query |-> q]

Args(question, conversationId, pageUrl) ==
    [question |-> question, conversationId |-> conversationId, pageUrl |-> pageUrl]
NoArgs == Args(Undefined, Undefined, Undefined)
Locals(question, conversationId) ==
    [question |-> question, conversationId |-> conversationId]
NoLocals == Locals(<<>>, Undefined)

\* The values the host passes.
QuestionArgs == {Undefined, NotAString, Str(<<>>), Str(<<" ">>), Str(<<" ", "q", " ">>)}
CommandArgs == {Undefined, Str(<<>>), Str(<<" ", "\t">>), Str(<<"q", " ">>)}
ConversationIdArgs ==
    {Undefined, NotAString, Str(<<>>), Str(<<" ">>), Str(<<"a">>), Str(<<" ", "b", " ">>)}
FollowupQuestionArgs == {Undefined, Str(<<" ", "q", " ">>)}
PageUrlArgs == {Undefined, NotAString, Str(<<>>), Str(<<" ">>), Str(<<" ", "u">>)}

TotalCalls == LET sum[i \in 0..NProcs] == IF i = 0 THEN 0 ELSE sum[i - 1] + calls[i]
              IN  sum[NProcs]
\* The host calls a handler: the invocation takes the lowest free slot.
CanStart(p) ==
    /\ pc[p] = "idle"
    /\ \A o \in Procs : o < p => pc[o] # "idle"
    /\ TotalCalls < MaxCalls

(***************************************************************************)
(* The handlers' own computations.                                         *)
(***************************************************************************)
\* The validation without the trim: typeof x === "string" ? x : "".
TrimmedOrEmpty_NoTrim(x) == IF IsString(x) THEN x.v ELSE <<>>

\* typeof x === "string" ? x.trim() : ""   (question, pageUrl)
TrimmedOrEmpty(x) == IF IsString(x) THEN Trim(x.v) ELSE <<>>

\* ctx.args?.trim()
CommandQuestion(x) == IF IsString(x) THEN Trim(x.v) ELSE <<>>

\* A resolution that turns the stored id into a string: String(undefined) is
\* "undefined", which is truthy.
ResolveConversationId_Stringify(x) ==
    IF IsString(x) THEN Str(Trim(x.v))
    ELSE IF "current" \in DOMAIN sessions THEN sessions["current"]
    ELSE Str(<<"u", "n", "d", "e", "f", "i", "n", "e", "d">>)

\* typeof args.conversationId === "string" ? args.conversationId.trim()
\*                                         : sessions.get("current")
ResolveConversationId(x) ==
    IF IsString(x) THEN Str(Trim(x.v)) ELSE sessionsGet("current")

\* A handler whose promise rejects (no handler of the code does).
Rejection(msg) == [kind |-> "rejected", details |-> ErrorPayload(msg), text |-> <<>>]

\* A catch that logs and throws on: catch (err) { ...; throw err; }.
ToolCatch_Rethrow(msg) == Rejection(msg)

\* The catch of a tool: return jsonResult({ error: err.message }).
ToolCatch(msg) == jsonResult(ErrorPayload(msg))
\* The catch of the command: return { text: `Error: ${err.message}` }.
CommandCatch(msg) == TextResult(<<"Error: ", msg>>)

CatchOf(t, msg) == IF t = "command" THEN CommandCatch(msg) ELSE ToolCatch(msg)

\* sessions.set before the await's outcome is known: also when query threw.
SessionsAfter_SetOnFailure(t, o, q) ==
    IF t \in {"dingtalk_ask", "command"} THEN sessionsSet("current", q.conversationId)
    ELSE sessions

\* A follow-up that throws drops the session: sessions.delete("current").
SessionsAfter_ClearOnError(t, o, q) ==
    IF o.threw THEN (IF t = "dingtalk_followup" THEN <<>> ELSE sessions)
    ELSE IF t \in {"dingtalk_ask", "command"} THEN sessionsSet("current", q.conversationId)
    ELSE sessions

\* Every handler that got an answer stores the id it used, follow-ups too.
SessionsAfter_TrackUsed(t, o, q) ==
    IF o.threw THEN sessions ELSE sessionsSet("current", q.conversationId)

\* The Map after the handler of tool t resumed from client.query /
\* client.followUp with outcome o (q is query's result when it returned).
SessionsAfter(t, o, q) ==
    IF o.threw THEN sessions
    ELSE IF t \in {"dingtalk_ask", "command"} THEN sessionsSet("current", q.conversationId)
    ELSE sessions

\* A dingtalk_followup that reports sessions.get("current") as it is when
\* the answer has arrived, not the id it resolved before the request.
AnswerResult_CurrentId(t, id, q) ==
    CASE t = "dingtalk_ask" ->
            jsonResult(Payload({"conversationId", "answer", "followUpQuestions", "hint"},
                               "", q.conversationId, q.answer, q.followUpQuestions))
      [] t = "dingtalk_followup" ->
            jsonResult(Payload({"conversationId", "answer", "followUpQuestions"},
                               "", sessionsGet("current"), q.answer, q.followUpQuestions))
      [] OTHER -> TextResult(CommandText(q))

\* What the handler of tool t returns for query's / followUp's result q.
AnswerResult(t, id, q) ==
    CASE t = "dingtalk_ask" ->
            jsonResult(Payload({"conversationId", "answer", "followUpQuestions", "hint"},
                               "", q.conversationId, q.answer, q.followUpQuestions))
      [] t = "dingtalk_followup" ->
            jsonResult(Payload({"conversationId", "answer", "followUpQuestions"},
                               "", id, q.answer, q.followUpQuestions))
      [] OTHER -> TextResult(CommandText(q))

\* Slot p starts an invocation of tool t with args a: what every handler's
\* first step has in common.
Begin(p, t, a) ==
    /\ CanStart(p)
    /\ tool' = [tool EXCEPT ![p] = t]
    /\ args' = [args EXCEPT ![p] = a]
    /\ calls' = [calls EXCEPT ![p] = @ + 1]
    /\ resp' = [resp EXCEPT ![p] = NoResponse]
    /\ UNCHANGED <<sessions, lastOk, lastUsed, sseVars, textVars>>

\* The handler returns r without having awaited anything.
ReturnAtOnce(p, r) ==
    /\ pc' = [pc EXCEPT ![p] = "idle"]
    /\ loc' = [loc EXCEPT ![p] = NoLocals]
    /\ requests' = [requests EXCEPT ![p] = <<>>]
    /\ result' = [result EXCEPT ![p] = r]

\* The handler issues its first request and awaits call.
FirstAwait(p, call, l, req) ==
    /\ pc' = [pc EXCEPT ![p] = call]
    /\ loc' = [loc EXCEPT ![p] = l]
    /\ requests' = [requests EXCEPT ![p] = <<req>>]
    /\ result' = [result EXCEPT ![p] = NoResult]

(***************************************************************************)
(* The handlers, from their call to their first await.                     *)
(***************************************************************************)
\* dingtalk_ask.execute: validation, then client.query -> createConversation.
dingtalk_ask(p, question) ==
    /\ Begin(p, "dingtalk_ask", Args(question, Undefined, Undefined))
    /\ LET q == TrimmedOrEmpty(question)
       IN  IF q = <<>>
           THEN ReturnAtOnce(p, jsonResult(Payload({"error", "receivedArgs"},
                                                   QuestionRequired, Undefined, <<>>, <<>>)))
           ELSE FirstAwait(p, "createConversation", Locals(q, Undefined),
                           Request("create", Undefined, q))

\* The /dingtalk command: the same, on ctx.args.
command(p, a) ==
    /\ Begin(p, "command", Args(a, Undefined, Undefined))
    /\ LET q == CommandQuestion(a)
       IN  IF q = <<>>
           THEN ReturnAtOnce(p, TextResult(<<Usage>>))
           ELSE FirstAwait(p, "createConversation", Locals(q, Undefined),
                           Request("create", Undefined, q))

\* dingtalk_followup.execute: resolve the id, then client.followUp -> ask.
dingtalk_followup(p, conversationId, question) ==
    /\ Begin(p, "dingtalk_followup", Args(question, conversationId, Undefined))
    /\ LET q  == TrimmedOrEmpty(question)
           id == ResolveConversationId(conversationId)
       IN  IF ~Truthy(id)
           THEN ReturnAtOnce(p, jsonResult(ErrorPayload(NoActiveConversation)))
           ELSE FirstAwait(p, "ask", Locals(q, id), Request("ask", id, q))

\* dingtalk_history.execute: resolve the id, then client.getHistory.
dingtalk_history(p, conversationId) ==
    /\ Begin(p, "dingtalk_history", Args(Undefined, conversationId, Undefined))
    /\ LET id == ResolveConversationId(conversationId)
       IN  IF ~Truthy(id)
           THEN ReturnAtOnce(p, jsonResult(ErrorPayload(NoActiveConversation)))
           ELSE FirstAwait(p, "getHistory", Locals(<<>>, id), Request("history", id, <<>>))

\* dingtalk_recommend.execute: validation, then client.getRecommendedQuestions.
dingtalk_recommend(p, pageUrl) ==
    /\ Begin(p, "dingtalk_recommend", Args(Undefined, Undefined, pageUrl))
    /\ LET url == TrimmedOrEmpty(pageUrl)
       IN  IF url = <<>>
           THEN ReturnAtOnce(p, jsonResult(ErrorPayload(PageUrlRequired)))
           ELSE FirstAwait(p, "getRecommendedQuestions", Locals(url, Undefined),
                           Request("recommend", Undefined, url))

(***************************************************************************)
(* The handlers, from a response on.                                       *)
(***************************************************************************)
\* The handler returns r after its last await.
Return(p, r) ==
    /\ pc' = [pc EXCEPT ![p] = "idle"]
    /\ result' = [result EXCEPT ![p] = r]

\* query that asks for a conversation once more when createConversation
\* failed (a retry).
createConversationReturns_Retry(p, r) ==
    /\ pc[p] = "createConversation"
    /\ resp' = [resp EXCEPT ![p] = r]
    /\ LET o == createConversation(r)
       IN  IF o.threw /\ Len(requests[p]) < 2
           THEN /\ requests' = [requests EXCEPT ![p] =
                                   Append(@, Request("create", Undefined, loc[p].question))]
                /\ UNCHANGED <<pc, loc, result>>
           ELSE IF o.threw
           THEN /\ Return(p, CatchOf(tool[p], o.error))
                /\ UNCHANGED <<loc, requests>>
           ELSE /\ pc' = [pc EXCEPT ![p] = "ask"]
                /\ loc' = [loc EXCEPT ![p].conversationId = o.value]
                /\ requests' = [requests EXCEPT ![p] =
                                   Append(@, Request("ask", o.value, loc[p].question))]
                /\ UNCHANGED result
    /\ UNCHANGED <<sessions, tool, args, calls, lastOk, lastUsed, sseVars, textVars>>

\* query, after createConversation: on its error the handler's catch; else
\* the ask request, with the id createConversation returned.
createConversationReturns(p, r) ==
    /\ pc[p] = "createConversation"
    /\ resp' = [resp EXCEPT ![p] = r]
    /\ LET o == createConversation(r)
       IN  IF o.threw
           THEN /\ Return(p, CatchOf(tool[p], o.error))
                /\ UNCHANGED <<loc, requests>>
           ELSE /\ pc' = [pc EXCEPT ![p] = "ask"]
                /\ loc' = [loc EXCEPT ![p].conversationId = o.value]
                /\ requests' = [requests EXCEPT ![p] =
                                   Append(@, Request("ask", o.value, loc[p].question))]
                /\ UNCHANGED result
    /\ UNCHANGED <<sessions, tool, args, calls, lastOk, lastUsed, sseVars, textVars>>

\* query / followUp, after ask: extraction and cleaning, then the handler's
\* sessions.set (ask and the command) and its return.
askReturns(p, r) ==
    /\ pc[p] = "ask"
    /\ resp' = [resp EXCEPT ![p] = r]
    /\ LET o == ask(r)
           q == query(loc[p].conversationId, o.value.v)
       IN  /\ sessions' = SessionsAfter(tool[p], o, q)
           /\ IF o.threw
              THEN /\ Return(p, CatchOf(tool[p], o.error))
                   /\ UNCHANGED <<lastOk, lastUsed>>
              ELSE /\ Return(p, AnswerResult(tool[p], loc[p].conversationId, q))
                   /\ lastOk' = IF tool[p] = "dingtalk_followup" THEN lastOk
                                ELSE q.conversationId
                   /\ lastUsed' = loc[p].conversationId
    /\ UNCHANGED <<tool, args, loc, requests, calls, sseVars, textVars>>

\* dingtalk_history, after getHistory: history.dialog.map(...) throws when
\* the result or its dialog is missing.
getHistoryReturns(p, r) ==
    /\ pc[p] = "getHistory"
    /\ resp' = [resp EXCEPT ![p] = r]
    /\ LET o == getHistory(r)
       IN  IF o.threw
           THEN Return(p, ToolCatch(o.error)) /\ UNCHANGED lastUsed
           ELSE IF ~o.value.defined \/ ~o.value.hasDialog
           THEN Return(p, ToolCatch(NoProperty)) /\ UNCHANGED lastUsed
           ELSE /\ Return(p, jsonResult(Payload({"conversationId", "dialog"}, "",
                                                loc[p].conversationId, <<>>,
                                                FlatDialog(o.value.dialog))))
                /\ lastUsed' = loc[p].conversationId
    /\ UNCHANGED <<sessions, tool, args, loc, requests, calls, lastOk, sseVars, textVars>>

getRecommendedQuestionsReturns(p, r) ==
    /\ pc[p] = "getRecommendedQuestions"
    /\ resp' = [resp EXCEPT ![p] = r]
    /\ LET o == getRecommendedQuestions(r)
       IN  Return(p, IF o.threw THEN ToolCatch(o.error)
                     ELSE jsonResult(Payload({"recommendedQuestions"}, "", Undefined,
                                             <<>>, o.value.v)))
    /\ UNCHANGED <<sessions, tool, args, loc, requests, calls, lastOk, lastUsed, sseVars, textVars>>

(***************************************************************************)
(* The specification of the adapter.                                       *)
(***************************************************************************)
\* No array has been appended to fullText; followUp has not run.
NoArray == [appended |-> FALSE, body |-> <<>>, list |-> <<>>]
NoReply == [returned |-> FALSE, value |-> [conversationId |-> Undefined, answer |-> <<>>, followUpQuestions |-> <<>>]]

Init ==
    /\ sessions = <<>>
    /\ pc = [p \in Procs |-> "idle"]
    /\ tool = [p \in Procs |-> "none"]
    /\ args = [p \in Procs |-> NoArgs]
    /\ loc = [p \in Procs |-> NoLocals]
    /\ requests = [p \in Procs |-> <<>>]
    /\ resp = [p \in Procs |-> NoResponse]
    /\ result = [p \in Procs |-> NoResult]
    /\ calls = [p \in Procs |-> 0]
    /\ lastOk = Undefined
    /\ lastUsed = Undefined
    /\ raw = <<>>
    /\ texts = <<>>
    /\ answer = Undefined
    /\ fullText = <<>>
    /\ pieces = 0
    /\ given = NoArray
    /\ reply = NoReply

Next ==
    \E p \in Procs :
        \/ \E q \in QuestionArgs : dingtalk_ask(p, q)
        \/ \E a \in CommandArgs : command(p, a)
        \/ \E c \in ConversationIdArgs, q \in FollowupQuestionArgs : dingtalk_followup(p, c, q)
        \/ \E c \in ConversationIdArgs : dingtalk_history(p, c)
        \/ \E u \in PageUrlArgs : dingtalk_recommend(p, u)
        \/ \E r \in CreateResponses : createConversationReturns(p, r)
        \/ \E r \in SseResponses : askReturns(p, r)
        \/ \E r \in HistoryResponses : getHistoryReturns(p, r)
        \/ \E r \in RecommendResponses : getRecommendedQuestionsReturns(p, r)

Spec == Init /\ [][Next]_vars

(***************************************************************************)
(* The SSE parser on its own: bodies are built line by line, each line     *)
(* either data: {"data": "<text>"} for a text of SseTexts (JSON-escaped)   *)
(* or one of the other lines an event stream holds, and then parsed.       *)
(* texts records what each line was built from.                            *)
(***************************************************************************)
\* JSON's escaping of a string's characters (of the model's alphabet).
EscapeChar(c) ==
    CASE c = "\"" -> <<"\\", "\"">>
      [] c = "\\" -> <<"\\", "\\">>
      [] c = "\n" -> <<"\\", "n">>
      [] c = "\r" -> <<"\\", "r">>
      [] c = "\t" -> <<"\\", "t">>
      [] OTHER    -> <<c>>

RECURSIVE Escape(_)
Escape(s) == IF s = <<>> THEN <<>> ELSE EscapeChar(Head(s)) \o Escape(Tail(s))

\* data: {"data": "<text>"}
DataLine(text) ==
    <<"d", "a", "t", "a", ":", " ", "{", "\"", "d", "a", "t", "a", "\"", ":", " ", "\"">>
    \o Escape(text) \o <<"\"", "}">>

SseTexts ==
    {<<>>, <<"h", "i">>, <<" ">>, <<"a", "\"">>, <<"\\", "n">>, <<"x", "\n">>,
     <<"[", "\"", "q", "\"", "]">>}

\* (an empty line)
SseBlank == <<>>
\* event: message
SseEvent == <<"e", "v", "e", "n", "t", ":", " ", "m", "e", "s", "s", "a", "g", "e">>
\* data: [DONE]
SseDone == <<"d", "a", "t", "a", ":", " ", "[", "D", "O", "N", "E", "]">>
\* data:  
SseEmptyData == <<"d", "a", "t", "a", ":", " ", " ">>
\* data: null
SseNull == <<"d", "a", "t", "a", ":", " ", "n", "u", "l", "l">>
\* data: {"type": "x"}
SseNoData == <<"d", "a", "t", "a", ":", " ", "{", "\"", "t", "y", "p", "e", "\"", ":", " ", "\"", "x", "\"", "}">>
\* data:hello
SsePlain == <<"d", "a", "t", "a", ":", "h", "e", "l", "l", "o">>

\* data: {"data": "hi"     (cut off before the closing brace)
SseCutOff == <<"d", "a", "t", "a", ":", " ", "{", "\"", "d", "a", "t", "a", "\"", ":", " ", "\"", "h", "i", "\"">>
\* data: "hi"
SseString == <<"d", "a", "t", "a", ":", " ", "\"", "h", "i", "\"">>
\*  data: {"data": "hi"}  (after a space, so without the prefix)
SseIndented == <<" ">> \o SseHi

OtherLines ==
    {SseBlank, SseEvent, SseDone, SseEmptyData, SseNull, SseNoData, SsePlain,
     SseCutOff, SseString, SseIndented}

\* The line ends a service writes between two lines.
LineEnds == {<<"\n">>, <<"\r", "\n">>}

LineInfo(wellFormed, text) == [wellFormed |-> wellFormed, text |-> text]

CanAppend == Len(texts) < MaxLines /\ answer = Undefined

AppendDataLine(text, eol) ==
    /\ CanAppend
    /\ raw' = IF texts = <<>> THEN DataLine(text) ELSE raw \o eol \o DataLine(text)
    /\ texts' = Append(texts, LineInfo(TRUE, text))
    /\ UNCHANGED <<answer, toolVars, textVars>>

AppendOtherLine(line, eol) ==
    /\ CanAppend
    /\ raw' = IF texts = <<>> THEN line ELSE raw \o eol \o line
    /\ texts' = Append(texts, LineInfo(FALSE, line))
    /\ UNCHANGED <<answer, toolVars, textVars>>

\* The body ends after its last line, or after a line end or an empty line.
BodyEnds == {<<>>, <<"\n">>, <<"\r", "\n", "\r", "\n">>}

Parse(ending) ==
    /\ answer = Undefined
    /\ raw' = raw \o ending
    /\ answer' = Str(parseSSEResponse(raw'))
    /\ UNCHANGED <<texts, toolVars, textVars>>

NextSSE ==
    \/ \E text \in SseTexts, eol \in LineEnds : AppendDataLine(text, eol)
    \/ \E line \in OtherLines, eol \in LineEnds : AppendOtherLine(line, eol)
    \/ \E ending \in BodyEnds : Parse(ending)

SpecSSE == Init /\ [][NextSSE]_vars

(***************************************************************************)
(* extractFollowUps and cleanAnswer on their own: an answer text is put    *)
(* together from pieces (single characters, and the openings and closings  *)
(* of arrays), the service may append its array of follow-up questions,    *)
(* and followUp's two helpers are applied to the text.                     *)
(***************************************************************************)
\* ["\u5982\u4f55
HowOpen == <<"[", "\"", "U5982", "U4F55">>
\* "]
CloseArray == <<"\"", "]">>
\* ["q"]
ArrayQ == <<"[", "\"", "q", "\"", "]">>

TextPieces ==
    {<<"a">>, <<" ">>, <<"[">>, <<"\"">>, <<"]">>, <<",">>, <<"\\">>, <<"\n">>,
     HowOpen, CloseArray, ArrayQ}

\* The lists of follow-up questions the service appends.
FollowUpLists ==
    {<< <<"q", "1">> >>,
     << <<"q", "1">>, <<"q", "2">> >>,
     << <<"U5982", "U4F55", "x">>, <<"a", " ", "b">> >>,
     << <<"a", ",", "b">>, <<"[">>, <<"]">> >>}

\* JSON.stringify of a list of strings: ["s1","s2"].
RECURSIVE QuotedItems(_)
QuotedItems(list) ==
    IF list = <<>> THEN <<>>
    ELSE <<"\"">> \o Escape(list[1]) \o <<"\"">>
         \o (IF Len(list) = 1 THEN <<>> ELSE <<",">> \o QuotedItems(Tail(list)))

ArrayLiteral(list) == <<"[">> \o QuotedItems(list) \o <<"]">>

CanAppendText == pieces < MaxPieces /\ ~given.appended /\ ~reply.returned

AppendText(piece) ==
    /\ CanAppendText
    /\ fullText' = fullText \o piece
    /\ pieces' = pieces + 1
    /\ UNCHANGED <<given, reply, toolVars, sseVars>>

\* The service ends the answer with the array of its follow-up questions.
AppendArray(list) ==
    /\ ~given.appended /\ ~reply.returned
    /\ fullText' = fullText \o ArrayLiteral(list)
    /\ given' = [appended |-> TRUE, body |-> fullText, list |-> list]
    /\ UNCHANGED <<pieces, reply, toolVars, sseVars>>

FollowUp ==
    /\ ~reply.returned
    /\ reply' = [returned |-> TRUE, value |-> followUp(fullText)]
    /\ UNCHANGED <<fullText, pieces, given, toolVars, sseVars>>

NextText ==
    \/ \E piece \in TextPieces : AppendText(piece)
    \/ \E list \in FollowUpLists : AppendArray(list)
    \/ FollowUp

SpecText == Init /\ [][NextText]_vars

(***************************************************************************)
(* Properties of the adapter.                                              *)
(***************************************************************************)
\* Slot p has just started an invocation (in the step at hand).
Starts(p) == calls'[p] # calls[p]
\* Slot p has taken the step at hand.
Steps(p) == calls'[p] # calls[p] \/ pc'[p] # pc[p]

IdTools == {"dingtalk_followup", "dingtalk_history"}
NoActiveResult == jsonResult(ErrorPayload(NoActiveConversation))

\* C1: dingtalk_followup and dingtalk_history, called without a conversation
\* id (args.conversationId is no string) while sessions holds no "current"
\* entry, return the "No active conversation" error and issue no request.
\* (sessions never loses its entry, so an entry missing now was missing when
\* the invocation started.)
C1_NoActiveConversation ==
    \A p \in Procs :
        (/\ tool[p] \in IdTools
         /\ ~IsString(args[p].conversationId)
         /\ "current" \notin DOMAIN sessions)
        => (/\ pc[p] = "idle"
            /\ result[p] = NoActiveResult
            /\ requests[p] = <<>>)

C1_Witness ==
    /\ "current" \notin DOMAIN sessions
    /\ tool[1] = "dingtalk_followup" /\ args[1].conversationId = Undefined
    /\ tool[2] = "dingtalk_history" /\ args[2].conversationId = Undefined
    /\ result[1].details.error = NoActiveConversation
    /\ result[2].details.error = NoActiveConversation

\* The request with which a followup or history invocation begins.
IdRequest(p) ==
    IF tool'[p] = "dingtalk_followup"
    THEN Request("ask", requests'[p][1].conversationId, TrimmedOrEmpty(args'[p].question))
    ELSE Request("history", requests'[p][1].conversationId, <<>>)

\* The invocation slot p starts issues one request, for conversation id.
UsesId(p, id) ==
    /\ pc'[p] # "idle"
    /\ Len(requests'[p]) = 1
    /\ requests'[p][1] = IdRequest(p)
    /\ requests'[p][1].conversationId = id

\* The invocation slot p starts returns the "No active conversation" error.
RefusesId(p) ==
    /\ pc'[p] = "idle"
    /\ result'[p] = NoActiveResult
    /\ requests'[p] = <<>>

\* C2: in dingtalk_followup and dingtalk_history an explicit id is the id
\* used for the request, without one the stored id is used, and the "No
\* active conversation" error is returned only when there is neither.  An
\* explicit id is read as a string that is not blank, the id used as its
\* trimmed text.  The handlers break it: a blank string as id is refused
\* with the error while an id is stored.
C2_Original ==
    [][\A p \in Procs :
        (Starts(p) /\ tool'[p] \in IdTools) =>
            LET x == args'[p].conversationId
                explicit == IsString(x) /\ Trim(x.v) # <<>>
            IN  /\ explicit => UsesId(p, Str(Trim(x.v)))
                /\ (~explicit /\ "current" \in DOMAIN sessions)
                       => UsesId(p, sessions["current"])
                /\ RefusesId(p) => (~explicit /\ "current" \notin DOMAIN sessions)]_vars

\* C3: sessions.get("current") is undefined as long as no dingtalk_ask or
\* command invocation has succeeded, and afterwards it is the conversation id
\* of the latest one that succeeded (lastOk); an invocation that fails moves
\* neither.
C3_PointerIsLatestSuccess ==
    /\ sessionsGet("current") = lastOk
    /\ ("current" \in DOMAIN sessions) <=> (lastOk # Undefined)

\* An ask succeeded, and a later ask or command failed after its requests.
C3_Witness ==
    /\ "current" \in DOMAIN sessions
    /\ \E p \in Procs :
           /\ tool[p] \in {"dingtalk_ask", "command"}
           /\ pc[p] = "idle" /\ Len(requests[p]) = 2
           /\ "conversationId" \notin result[p].details.keys
           /\ requests[p][2].conversationId # sessions["current"]
           /\ (result[p].details.error # "" \/ result[p].text # <<>>)
           /\ result[p].text # <<Usage>>

\* C4: no step of a dingtalk_followup, dingtalk_history or dingtalk_recommend
\* invocation changes sessions: not its start, not its return with a result
\* or an error, whatever conversation id it was given.
C4_ReadersLeaveSessions ==
    [][\A p \in Procs :
        (Steps(p) /\ tool'[p] \in {"dingtalk_followup", "dingtalk_history",
                                   "dingtalk_recommend"})
        => sessions' = sessions]_vars

\* A follow-up answered for an explicit id that is not the stored one, and a
\* follow-up that failed, with the stored id still in place.
C4_Witness ==
    /\ "current" \in DOMAIN sessions
    /\ \E p \in Procs :
           /\ tool[p] = "dingtalk_followup" /\ pc[p] = "idle"
           /\ "answer" \in result[p].details.keys
           /\ result[p].details.conversationId # sessions["current"]
    /\ \E p \in Procs :
           /\ tool[p] = "dingtalk_followup" /\ pc[p] = "idle"
           /\ requests[p] # <<>>
           /\ "error" \in result[p].details.keys

\* C5 as stated: sessions.get("current") is the conversation id the latest
\* invocation that used one (and succeeded) used.
C5_Original == lastUsed # Undefined => sessionsGet("current") = lastUsed

\* C5, amended: the stored id is the id of the conversation created last by a
\* dingtalk_ask or command invocation that succeeded; dingtalk_followup and
\* dingtalk_history use an explicit id without storing it, so a later call
\* that omits the id continues the conversation of the latest successful
\* dingtalk_ask or command, not the conversation used last.
C5_OmittedIdContinuesLatestAsk ==
    [][\A p \in Procs :
        (/\ Starts(p) /\ tool'[p] \in IdTools
         /\ ~IsString(args'[p].conversationId)
         /\ lastOk # Undefined)
        => UsesId(p, lastOk)]_vars

\* A call that omits the id is sent for the conversation of the latest ask
\* although a follow-up for another conversation succeeded after that ask.
C5_Witness ==
    \E p \in Procs :
        /\ tool[p] \in IdTools /\ pc[p] # "idle"
        /\ ~IsString(args[p].conversationId)
        /\ requests[p][1].conversationId = lastOk
        /\ lastUsed # Undefined /\ lastUsed # lastOk

\* The error the client raises for response r to a request to endpoint, ""
\* when it raises none of the four the claim names: no response, an error
\* status, a body that is not JSON, a success flag that is false.
ClientError(endpoint, r) ==
    IF ~r.arrived THEN FetchFailed
    ELSE IF ~r.ok THEN
        CASE endpoint = "create"  -> CreateFailed
          [] endpoint = "ask"     -> SseFailed
          [] endpoint = "history" -> HistoryFailed
          [] OTHER                -> ""
    ELSE IF endpoint = "ask" THEN ""
    ELSE IF ~r.body.decodable THEN NotJson
    ELSE IF ~r.body.success THEN
        CASE endpoint = "create"  -> CreateApiError
          [] endpoint = "history" -> HistoryApiError
          [] OTHER                -> ""
    ELSE ""

Tools == {"dingtalk_ask", "dingtalk_followup", "dingtalk_history", "dingtalk_recommend"}

\* The response in resp[p] answers the last request of requests[p] whenever
\* the invocation has returned after a request.
Answered(p) == pc[p] = "idle" /\ requests[p] # <<>>
LastRequest(p) == requests[p][Len(requests[p])]

\* C6: an invocation of one of the four tools that has returned has returned
\* a jsonResult (its promise did not reject), and when the client raised an
\* error for the last response, the result is { error: <that message> }.
C6_ToolsReturnErrors ==
    \A p \in Procs :
        (tool[p] \in Tools /\ pc[p] = "idle") =>
            /\ result[p].kind = "tool"
            /\ (Answered(p) /\ ClientError(LastRequest(p).endpoint, resp[p]) # "")
                   => result[p].details =
                          ErrorPayload(ClientError(LastRequest(p).endpoint, resp[p]))

\* Two invocations have returned, one after a body that is not JSON and one
\* after a fetch that failed, each with the client's message as its error.
C6_Witness ==
    /\ Answered(1) /\ tool[1] = "dingtalk_history"
    /\ resp[1].arrived /\ resp[1].ok /\ ~resp[1].body.decodable
    /\ result[1].details.error = NotJson
    /\ Answered(2) /\ tool[2] = "dingtalk_ask"
    /\ ~resp[2].arrived
    /\ result[2].details.error = FetchFailed

\* x is missing, no string, empty or white space only.
Blank(x) == ~IsString(x) \/ \A i \in 1..Len(x.v) : IsSpace(x.v[i])

\* The invocation that slot p starts returns r at once, with no request and
\* sessions as it was.
RejectsInput(p, r) ==
    /\ pc'[p] = "idle"
    /\ result'[p] = r
    /\ requests'[p] = <<>>
    /\ sessions' = sessions

\* C7: dingtalk_ask with a blank question and dingtalk_recommend with a blank
\* pageUrl return an error result, the command with blank arguments returns
\* the usage text; each without a request and without a change of sessions.
C7_ValidationBeforeNetwork ==
    [][\A p \in Procs : Starts(p) =>
        /\ (tool'[p] = "dingtalk_ask" /\ Blank(args'[p].question))
               => RejectsInput(p, jsonResult(Payload({"error", "receivedArgs"},
                                                     QuestionRequired, Undefined, <<>>, <<>>)))
        /\ (tool'[p] = "dingtalk_recommend" /\ Blank(args'[p].pageUrl))
               => RejectsInput(p, jsonResult(ErrorPayload(PageUrlRequired)))
        /\ (tool'[p] = "command" /\ Blank(args'[p].question))
               => RejectsInput(p, TextResult(<<Usage>>))]_vars

\* A white-space question and a white-space pageUrl were rejected while an id
\* was stored.
C7_Witness ==
    /\ "current" \in DOMAIN sessions
    /\ tool[2] = "dingtalk_ask" /\ args[2].question = Str(<<" ">>)
    /\ result[2].details.error = QuestionRequired /\ requests[2] = <<>>
    /\ tool[1] = "dingtalk_recommend" /\ args[1].pageUrl = Str(<<" ">>)
    /\ result[1].details.error = PageUrlRequired /\ requests[1] = <<>>

\* The error a handler reported: in its result's error, or in the command's text.
ReportedError(p) ==
    IF tool[p] = "command"
    THEN (IF Len(result[p].text) = 2 /\ result[p].text[1] = "Error: "
          THEN result[p].text[2] ELSE "")
    ELSE result[p].details.error

\* resp[p] is the response to createConversation's request.
CreateAnswered(p) ==
    /\ requests[p] # <<>> /\ requests[p][1].endpoint = "create"
    /\ \/ pc[p] = "idle" /\ Len(requests[p]) = 1
       \/ pc[p] = "ask"

RecommendList(list) ==
    jsonResult(Payload({"recommendedQuestions"}, "", Undefined, <<>>, list))

\* C9 as stated: dingtalk_recommend, called with a page URL, reports no
\* transport failure (no response, or an error status) as an error: it
\* returns a list of recommendations.
C9_Original ==
    \A p \in Procs :
        (/\ Answered(p) /\ tool[p] = "dingtalk_recommend"
         /\ (~resp[p].arrived \/ ~resp[p].ok))
        => "recommendedQuestions" \in result[p].details.keys

\* C9, amended: getRecommendedQuestions returns the empty list for an error
\* status and for a decoded body without a result, so dingtalk_recommend
\* reports no error status as an error; a fetch that rejects and a body that
\* is not JSON are raised, and dingtalk_recommend returns them as error
\* results.
C9_RecommendDegrades ==
    \A p \in Procs :
        (Answered(p) /\ tool[p] = "dingtalk_recommend") =>
            /\ (resp[p].arrived /\ ~resp[p].ok) => result[p] = RecommendList(<<>>)
            /\ (resp[p].arrived /\ resp[p].ok /\ resp[p].body.decodable
                /\ ~resp[p].body.hasResult) => result[p] = RecommendList(<<>>)
            /\ (resp[p].arrived /\ resp[p].ok /\ resp[p].body.decodable
                /\ resp[p].body.hasResult) => result[p] = RecommendList(resp[p].body.list)
            /\ ~resp[p].arrived => result[p].details = ErrorPayload(FetchFailed)
            /\ (resp[p].arrived /\ resp[p].ok /\ ~resp[p].body.decodable)
                   => result[p].details = ErrorPayload(NotJson)

\* An error status gave the empty list, a rejected fetch an error result.
C9_Witness ==
    /\ Answered(1) /\ tool[1] = "dingtalk_recommend"
    /\ resp[1].arrived /\ ~resp[1].ok /\ result[1] = RecommendList(<<>>)
    /\ Answered(2) /\ tool[2] = "dingtalk_recommend"
    /\ ~resp[2].arrived /\ result[2].details.error = FetchFailed

(***************************************************************************)
(* Properties of the SSE parser.                                           *)
(***************************************************************************)
RECURSIVE ConcatTexts(_)
ConcatTexts(infos) ==
    IF infos = <<>> THEN <<>> ELSE infos[1].text \o ConcatTexts(Tail(infos))

AllWellFormed == \A i \in 1..Len(texts) : texts[i].wellFormed

\* C10: for a body whose lines are all data: {"data": "<text>"}, the parsed
\* answer is the texts in line order, one after the other.
C10_WellFormedConcatenation ==
    (answer # Undefined /\ AllWellFormed) => answer = Str(ConcatTexts(texts))

\* Three lines of different texts, one of them with escapes, were parsed.
C10_Witness ==
    /\ answer # Undefined /\ AllWellFormed
    /\ Len(texts) = 3
    /\ texts[1].text = <<"a", "\"">>
    /\ texts[2].text = <<" ">>
    /\ texts[3].text = <<"h", "i">>
    /\ answer = Str(<<"a", "\"", " ", "h", "i">>)


\* What the line texts[i] was built from contributes according to C11: a
\* data: {"data": "<text>"} line its text; a line whose payload is no JSON
\* the payload as it stands; a line whose payload is JSON without a data
\* field, a line with an empty payload and a line without the data: prefix
\* nothing.
C11_Contribution(info) ==
    IF info.wellFormed THEN info.text
    ELSE CASE info.text = SseDone   -> <<"[", "D", "O", "N", "E", "]">>
           [] info.text = SsePlain  -> <<"h", "e", "l", "l", "o">>
           [] info.text = SseCutOff -> SliceFrom(SseCutOff, 6)
           [] OTHER                 -> <<>>

RECURSIVE C11_Contributions(_)
C11_Contributions(infos) ==
    IF infos = <<>> THEN <<>>
    ELSE C11_Contribution(infos[1]) \o C11_Contributions(Tail(infos))

\* C11: parseSSEResponse returns a string for every body, and the string is
\* the contributions of the lines in line order: the payload as it stands
\* for a payload that is no JSON, the data field for a payload that is JSON
\* and has one, nothing for any other line.  The parser breaks it on the
\* payload null, which is JSON without a data field and is appended.
C11_Original ==
    answer # Undefined => answer = Str(C11_Contributions(texts))

(***************************************************************************)
(* Properties of extractFollowUps and cleanAnswer.                         *)
(***************************************************************************)
\* The strings of list as JSON.parse returns them.
ParsedStrings(list) == [i \in 1..Len(list) |-> JStr(list[i])]

\* C12: for a text that is an answer body followed at once by the array
\* literal of one or more strings that are not empty, followUp returns the
\* strings of that array in order as followUpQuestions and the body, with
\* the array removed and trimmed, as answer.  extractFollowUps breaks it for
\* a body that holds ["\u5982\u4f55: its first alternative is not anchored
\* at the end (the defect C13 is about).
C12_Original ==
    (reply.returned /\ given.appended) =>
        /\ reply.value.followUpQuestions = ParsedStrings(given.list)
        /\ reply.value.answer = Trim(given.body)

\* One step of reading s as ["item","item"]: the state after character c.
\*   0 before [, 1 before the opening quote, 2 in an item that is empty,
\*   3 in an item, 4 after a closing quote, 5 after ], 6 after a comma,
\*   7 no array.
ArrayStep(state, c) ==
    CASE state = 0 -> IF c = "[" THEN 1 ELSE 7
      [] state = 1 -> IF c = "\"" THEN 2 ELSE 7
      [] state = 2 -> IF c = "\"" THEN 7 ELSE 3
      [] state = 3 -> IF c = "\"" THEN 4 ELSE 3
      [] state = 4 -> IF c = "]" THEN 5 ELSE IF c = "," THEN 6 ELSE 7
      [] state = 6 -> IF c = "\"" THEN 2 ELSE 7
      [] OTHER     -> 7

RECURSIVE ArrayState(_, _)
ArrayState(s, state) ==
    IF s = <<>> THEN state ELSE ArrayState(Tail(s), ArrayStep(state, Head(s)))

\* s is an array of quoted strings that are not empty: ["..","..",".."].
IsQuotedArray(s) == ArrayState(s, 0) = 5

\* s is ["\u5982\u4f55 ... "].
IsHowArray(s) ==
    /\ Len(s) >= Len(HowOpen) + Len(CloseArray)
    /\ SubSeq(s, 1, Len(HowOpen)) = HowOpen
    /\ SubSeq(s, Len(s) - 1, Len(s)) = CloseArray

\* The text ends in a quoted-string array pattern of either form.
EndsInArray(s) ==
    \E i \in 1..Len(s) :
        IsQuotedArray(SubSeq(s, i, Len(s))) \/ IsHowArray(SubSeq(s, i, Len(s)))

\* C13: for a text that does not end in a quoted-string array pattern,
\* extractFollowUps returns [] and cleanAnswer the text trimmed, so an array
\* in the middle of the answer is neither extracted nor removed.
\* extractFollowUps breaks it: /\["\u5982\u4f55.*?"\]|...\]$/ anchors its
\* second alternative only, and an array ["\u5982\u4f55.."] in the middle
\* of the text is extracted.
C13_Original ==
    (reply.returned /\ ~EndsInArray(fullText)) =>
        /\ reply.value.followUpQuestions = <<>>
        /\ reply.value.answer = Trim(fullText)

\* cleanAnswer has removed something from fullText besides trimming it.
Removed == reply.value.answer # Trim(fullText)

\* C14: extractFollowUps returns a list that is not empty exactly when
\* cleanAnswer removes a trailing array, and the text removed is the span
\* that decodes into the list returned.  The two break it both ways: an
\* array JSON.parse rejects is removed and reported as [], and an array
\* ["\u5982\u4f55.."] the second pattern does not match is reported and
\* stays in the answer.
C14_Original ==
    reply.returned =>
        /\ (reply.value.followUpQuestions # <<>>) <=> Removed
        /\ Removed =>
               \E i \in 1..Len(fullText) :
                   /\ reply.value.answer = Trim(SubSeq(fullText, 1, i - 1))
                   /\ LET decoded == JsonParse(SubSeq(fullText, i, Len(fullText)))
                      IN  /\ decoded.ok
                          /\ decoded.val.t = "arr"
                          /\ decoded.val.m = reply.value.followUpQuestions

(***************************************************************************)
(* Properties of the requests an invocation issues.                        *)
(***************************************************************************)
\* The endpoint of the first request of each handler.
FirstEndpoint(t) ==
    CASE t \in {"dingtalk_ask", "command"} -> "create"
      [] t = "dingtalk_followup"           -> "ask"
      [] t = "dingtalk_history"            -> "history"
      [] OTHER                             -> "recommend"

\* The response r to a create request is a success: status and success flag
\* are good and the envelope carries the new conversation's id.
CreateSucceeded(r) ==
    /\ r.arrived /\ r.ok
    /\ r.body.decodable /\ r.body.success /\ r.body.hasResult

\* The invocation in slot p returns in the step at hand.
Returns(p) == ~Starts(p) /\ pc[p] # "idle" /\ pc'[p] = "idle"

\* C15: an invocation issues one chain of requests and repeats none.  Its
\* first step issues no request or the one first request of its handler; a
\* later step adds a request only in dingtalk_ask and the command, only as
\* the second request, an ask after the create, only when the response to
\* the create is a success, and with the conversation id of that response;
\* dingtalk_ask reports that same id to its caller.
C15_OneChainNoRetry ==
    [][\A p \in Procs :
        /\ Starts(p) =>
               \/ requests'[p] = <<>>
               \/ /\ Len(requests'[p]) = 1
                  /\ requests'[p][1].endpoint = FirstEndpoint(tool'[p])
        /\ (~Starts(p) /\ requests'[p] # requests[p]) =>
               /\ tool[p] \in {"dingtalk_ask", "command"}
               /\ Len(requests[p]) = 1 /\ requests[p][1].endpoint = "create"
               /\ CreateSucceeded(resp'[p])
               /\ requests'[p] =
                      Append(requests[p],
                             Request("ask", Str(resp'[p].body.conversationId),
                                     requests[p][1].query))
        /\ (Returns(p) /\ tool[p] = "dingtalk_ask"
               /\ "conversationId" \in result'[p].details.keys) =>
               /\ Len(requests[p]) = 2
               /\ result'[p].details.conversationId = requests[p][2].conversationId]_vars

\* dingtalk_ask has returned an answer after its two requests, and the
\* command has returned after a create request that failed, with no second
\* request.
C15_Witness ==
    /\ tool[1] = "dingtalk_ask" /\ pc[1] = "idle"
    /\ Len(requests[1]) = 2
    /\ requests[1][1].endpoint = "create" /\ requests[1][2].endpoint = "ask"
    /\ result[1].details.conversationId = requests[1][2].conversationId
    /\ tool[2] = "command" /\ pc[2] = "idle"
    /\ Len(requests[2]) = 1 /\ requests[2][1].endpoint = "create"
    /\ ~resp[2].ok

\* C16: a dingtalk_followup or dingtalk_history invocation that sends a
\* request sends the id it resolves in its first step, the explicit id or
\* sessions.get("current") as it is then; no later step of the invocation
\* changes the request, and the conversationId of its result is the id of
\* the request, whatever sessions holds by then.
C16_IdResolvedOnce ==
    [][\A p \in Procs :
        /\ (Starts(p) /\ tool'[p] \in IdTools /\ requests'[p] # <<>>) =>
               LET x == args'[p].conversationId
               IN  requests'[p][1].conversationId =
                       IF IsString(x) THEN Str(Trim(x.v)) ELSE sessionsGet("current")
        /\ (~Starts(p) /\ tool[p] \in IdTools) => requests'[p] = requests[p]
        /\ (Returns(p) /\ tool[p] \in IdTools
               /\ "conversationId" \in result'[p].details.keys) =>
               result'[p].details.conversationId = requests[p][1].conversationId]_vars

\* A dingtalk_followup called without an id has returned its answer for the
\* conversation "a", the stored id when it started, after a dingtalk_ask in
\* the other slot stored "b" while the request was in flight.
C16_Witness ==
    /\ tool[1] = "dingtalk_followup" /\ args[1].conversationId = Undefined
    /\ pc[1] = "idle"
    /\ "conversationId" \in result[1].details.keys
    /\ result[1].details.conversationId = Str(<<"a">>)
    /\ lastUsed = Str(<<"a">>)
    /\ tool[2] = "dingtalk_ask" /\ pc[2] = "idle"
    /\ result[2].kind = "tool" /\ result[2].details.conversationId = Str(<<"b">>)
    /\ sessionsGet("current") = Str(<<"b">>)
=============================================================================
